---------------------------- MODULE Spec2Model ----------------------------
(***************************************************************************)
(* A state-machine model of the two notebooks of ipyparaview's examples:   *)
(*                                                                         *)
(*   "iso"   Iso-Surfaces with RTX: dataset download, pipeline set-up,     *)
(*           PVDisplay, OptiX back-end, isovalue callback, light callbacks *)
(*   "test"  ParaView Test: shrink filter callback, the same widget shown  *)
(*           twice, a second RenderView                                    *)
(*                                                                         *)
(* A behaviour is one kernel session of one of the two notebooks (nb).     *)
(* One action is one cell execution or one widget interaction.  A cell     *)
(* that raises part-way (a name that an earlier cell would have defined)   *)
(* keeps the effects of the statements before the raise.                   *)
(*                                                                         *)
(* Units.  Floats are scaled integers: isovalues are whole numbers,        *)
(* angles are tenths of a degree, positions thousandths, intensities       *)
(* ten-thousandths, shrink factors hundredths.  A colour component is the  *)
(* rational [num, den].  A Python string is the sequence of its            *)
(* characters.                                                             *)
(***************************************************************************)
EXTENDS Integers, Sequences, FiniteSets, TLC

\* ------------------------------------------------------------- bounds
\* urlretrieve invocations per session (failed downloads can repeat forever)
MaxRetrieve == 2
\* PVDisplay objects constructed per session
MaxWidgets == 2
\* RenderViews created per session
MaxViews == 2
\* representations shown in one RenderView
MaxShown == 2

\* ---------------------------------------------------- program constants
OriginalIso == 1627
WaveletIso == 157
\* ParaView's default ShrinkFactor, 0.5 (the notebook reads it, never sets it)
DefaultShrink == 50
\* the name renV: the one RenderView the iso notebook creates
renV == 1
\* the name disp: the PVDisplay the test notebook creates first
disp == 1

IsoVals == {OriginalIso, 800, 2400}
ShrinkVals == {0, DefaultShrink, 100}

\* ------------------------------------------------------ pure functions

\* str.strip('#'): every leading and every trailing '#' goes
RECURSIVE LStrip(_)
LStrip(s) == IF s # <<>> /\ Head(s) = "#" THEN LStrip(Tail(s)) ELSE s

RECURSIVE RStrip(_)
RStrip(s) ==
    IF s # <<>> /\ s[Len(s)] = "#" THEN RStrip(SubSeq(s, 1, Len(s) - 1)) ELSE s

Strip(s) == RStrip(LStrip(s))

\* s[i:j] for 0 <= i <= j: the characters at 0-based places i .. j-1 that exist
Slice(s, i, j) == SubSeq(s, i + 1, IF j < Len(s) THEN j ELSE Len(s))

\* the digits int(s, 16) reads, in the order of their values; the capitals
\* follow
HexChars ==
    <<"0", "1", "2", "3", "4", "5", "6", "7", "8", "9",
      "a", "b", "c", "d", "e", "f", "A", "B", "C", "D", "E", "F">>

HexTable ==
    [c \in {HexChars[k] : k \in 1..Len(HexChars)} |->
        LET k == CHOOSE k \in 1..Len(HexChars) : HexChars[k] = c
        IN  IF k <= 16 THEN k - 1 ELSE k - 7]

\* the value of one base-16 digit, -1 for any other character
HexDigit(c) == IF c \in DOMAIN HexTable THEN HexTable[c] ELSE -1

\* int(s, 16) on a string of hex digits; -1 stands for ValueError
RECURSIVE IntBase16Acc(_, _)
IntBase16Acc(s, acc) ==
    IF s = <<>> THEN acc
    ELSE IF HexDigit(Head(s)) < 0 THEN -1
    ELSE IntBase16Acc(Tail(s), 16 * acc + HexDigit(Head(s)))

IntBase16(s) == IF s = <<>> THEN -1 ELSE IntBase16Acc(s, 0)

hexToRGBBy(h, den) ==
    LET s == Strip(h)
        v == [k \in 1..3 |-> IntBase16(Slice(s, 2 * (k - 1), 2 * (k - 1) + 2))]
    IN  IF \E k \in 1..3 : v[k] < 0
        THEN <<>>
        ELSE [k \in 1..3 |-> [num |-> v[k], den |-> den]]

\* a plausible slip: the 8-bit range taken for 256 steps
hexToRGB256(h) == hexToRGBBy(h, 256)

\* list(float(int(h.strip('#')[i:i+2], 16))/255.0 for i in (0, 2, 4));
\* <<>> stands for the ValueError of int()
hexToRGB(h) == hexToRGBBy(h, 255)

\* sin and cos of the angles the notebook uses, in thousandths (rounded)
Angles == {0, 269, 367, 436, 1489, 3082}
SinM(a) ==
    CASE a = 0 -> 0 [] a = 269 -> 452 [] a = 367 -> 598
      [] a = 436 -> 690 [] a = 1489 -> 517 [] a = 3082 -> -786
CosM(a) ==
    CASE a = 0 -> 1000 [] a = 269 -> 892 [] a = 367 -> 802
      [] a = 436 -> 724 [] a = 1489 -> -856 [] a = 3082 -> 618

\* the rounded quotient of a product of two thousandths
MulM(a, b) ==
    LET p == a * b
    IN  IF p >= 0 THEN (p + 500) \div 1000 ELSE -((500 - p) \div 1000)

\* [sin(p)*cos(t), sin(t), cos(p)*cos(t)]
sphereToCart(t, p) == <<MulM(SinM(p), CosM(t)), SinM(t), MulM(CosM(p), CosM(t))>>

\* the colours the notebook names
Str(a, b, c, d, e, f) == <<"#", a, b, c, d, e, f>>
ColOrange == Str("f", "f", "5", "7", "0", "0")
ColBlue == Str("1", "0", "9", "a", "d", "2")
ColGreen == Str("0", "0", "f", "f", "0", "0")
ColRed == Str("f", "f", "0", "0", "0", "0")
ColWhite == Str("f", "f", "f", "f", "f", "f")

\* what the two directional controls can hand to setDirLight: theta, phi, col, lum
DirInputs ==
    {<<0, 3082, ColOrange, 12600>>, <<367, 1489, ColBlue, 10000>>}
\* what the point-light controls can hand to setPtLight: x, y, z, col, lum
PtInputs ==
    {<<100, -330, 500, ColGreen, 158>>, <<100, -330, 0, ColRed, 158>>}

\* the inputs of the colour parser: '#' and six digits of these
HexDigitsUsed == {"0", "9", "a", "f", "A", "F"}
HexInputs ==
    {Str(a, b, c, d, e, f) : a \in HexDigitsUsed, b \in HexDigitsUsed,
                             c \in HexDigitsUsed, d \in HexDigitsUsed,
                             e \in HexDigitsUsed, f \in HexDigitsUsed}

\* --------------------------------------------------------------- state
VARIABLES
    nb,              \* the notebook this session runs: "iso", "test" or "none"
    defined,         \* the cells whose names later cells need, once bound
    file,            \* CT-Head.raw on disk: "absent", "partial", "complete"
    urlretrieveCalls,\* invocations of urlretrieve
    downloads,       \* invocations of urlretrieve that returned
    contour,         \* the Contour filter
    lastIso,         \* argument of the most recent completed call of iso
    isoSlider,       \* the slider interact made for iso: <<>> or <<value>>
    shrink,          \* the Shrink filter
    lastShrink,      \* argument of the most recent completed call of setShrink
    shrinkSlider,    \* the slider interact made for setShrink
    renviews,        \* the RenderViews, by id
    lights,          \* light1, light2, light3: <<>> before they are added
    lightingRan,     \* the lighting-controls cell has enabled the lights
    controls,        \* the light controls are on display
    widgets,         \* the PVDisplay objects, by id
    outputs,         \* per cell output area: the PVDisplay shown there, or 0
    frames,          \* per cell output area: the render state it shows
    h,               \* colour parser: the input
    rgb              \* colour parser: whether hexToRGB was applied, and its result

vars ==
    <<nb, defined, file, urlretrieveCalls, downloads,
      contour, lastIso, isoSlider, shrink, lastShrink, shrinkSlider,
      renviews, lights, lightingRan, controls, widgets, outputs, frames,
      h, rgb>>

datasetVars == <<file, urlretrieveCalls, downloads>>
isoVars == <<contour, lastIso, isoSlider>>
shrinkVars == <<shrink, lastShrink, shrinkSlider>>
lightVars == <<lights, lightingRan, controls>>
hexVars == <<h, rgb>>

OutCells == {"display", "test", "again", "second"}

NoContour == [defined |-> FALSE, Isosurfaces |-> <<>>, output |-> <<>>]
NoShrink == [defined |-> FALSE, ShrinkFactor |-> 0, output |-> <<>>]

\* a representation Show() adds to a view
Rep(source, material) ==
    [source |-> source, Representation |-> "Surface", OSPRayMaterial |-> material]

\* CreateView('RenderView') with ParaView's defaults
CreateView ==
    [ViewSize |-> <<>>, CameraPosition |-> <<>>, Background |-> <<>>,
     BackEnd |-> "default", EnableRayTracing |-> 0, Denoise |-> 0,
     SamplesPerPixel |-> 1, UseLight |-> TRUE, Materials |-> "",
     shown |-> <<>>]

\* AddLight(view=renV) with ParaView's defaults: a new light is switched on
AddLight ==
    [Enable |-> 1, Type |-> "default", ConeAngle |-> 30,
     Position |-> <<0, 0, 1000>>, DiffuseColor |-> hexToRGB(ColWhite),
     Intensity |-> 10000]

\* PVDisplay(ren): the widget keeps the RenderView it was given
PVDisplay(ren) == [ren |-> ren]

\* what a RenderView renders: its own properties, its lights, its pipelines
RenderState(rv, ls, c, s, v) ==
    [view |-> rv[v], lights |-> ls, contour |-> c, shrink |-> s]

\* the frame a PVDisplay streams into every output area that shows it
Frames(rv, ls, c, s, w, o) ==
    [cell \in OutCells |->
        IF o[cell] = 0 THEN <<>>
        ELSE <<RenderState(rv, ls, c, s, w[o[cell]].ren)>>]

Render ==
    frames' = Frames(renviews', lights', contour', shrink', widgets', outputs')

\* -------------------------------------------------------------- callbacks

\* contour.UpdatePipeline(): the output is computed from the value the
\* filter holds at the call
UpdateContour(c) == [c EXCEPT !.output = c.Isosurfaces]

\* shrink.UpdatePipeline()
UpdateShrink(s) == [s EXCEPT !.output = <<s.ShrinkFactor>>]

\* a slip: the pipeline is updated before the new value is assigned
isoUpdatesFirst(c, isoval) ==
    [UpdateContour(c) EXCEPT !.Isosurfaces = <<isoval>>]

\* contour.Isosurfaces = [isoval]; contour.UpdatePipeline()
iso(c, isoval) == UpdateContour([c EXCEPT !.Isosurfaces = <<isoval>>])

\* shrink.ShrinkFactor = factor; shrink.UpdatePipeline()
setShrink(s, factor) == UpdateShrink([s EXCEPT !.ShrinkFactor = factor])

\* a slip: the callback also makes its light directional
setDirLightSetsType(ls, L, theta, phi, col, lum) ==
    [ls EXCEPT ![L].Position = sphereToCart(theta, phi),
               ![L].DiffuseColor = hexToRGB(col),
               ![L].Intensity = lum,
               ![L].Type = "Directional"]

setDirLight(ls, L, theta, phi, col, lum) ==
    [ls EXCEPT ![L].Position = sphereToCart(theta, phi),
               ![L].DiffuseColor = hexToRGB(col),
               ![L].Intensity = lum]

setPtLight(ls, L, x, y, z, col, lum) ==
    [ls EXCEPT ![L].Position = <<x, y, z>>,
               ![L].DiffuseColor = hexToRGB(col),
               ![L].Intensity = lum]

\* ------------------------------------------------------------------ Init

InitCommon ==
    /\ defined = {}
    /\ urlretrieveCalls = 0
    /\ downloads = 0
    /\ contour = NoContour
    /\ lastIso = <<>>
    /\ isoSlider = <<>>
    /\ shrink = NoShrink
    /\ lastShrink = <<>>
    /\ shrinkSlider = <<>>
    /\ renviews = <<>>
    /\ lights = <<>>
    /\ lightingRan = FALSE
    /\ controls = FALSE
    /\ widgets = <<>>
    /\ outputs = [cell \in OutCells |-> 0]
    /\ frames = [cell \in OutCells |-> <<>>]

\* a session of either notebook; the dataset may be cached from an earlier one
Init ==
    /\ nb \in {"iso", "test"}
    /\ file \in {"absent", "complete"}
    /\ nb = "test" => file = "absent"
    /\ InitCommon
    /\ h = <<>>
    /\ rgb = [applied |-> FALSE, result |-> <<>>]

\* --------------------------------------- notebook "iso": the dataset cell

\* The cell, with `cached` the answer of os.path.exists(filename) the `if`
\* acts on.  urlretrieve writes the file as it reads the response: it can
\* return ("ok"), raise before it creates the file ("refused"), or raise
\* with a short file on disk ("truncated").  A raise ends the cell, and
\* vtkimg stays unbound.
DatasetRun(cached, outcome) ==
    /\ nb = "iso"
    /\ IF cached
       THEN /\ outcome = "ok"
            /\ UNCHANGED <<file, urlretrieveCalls, downloads>>
       ELSE /\ urlretrieveCalls < MaxRetrieve
            /\ urlretrieveCalls' = urlretrieveCalls + 1
            /\ downloads' = IF outcome = "ok" THEN downloads + 1 ELSE downloads
            /\ file' = CASE outcome = "ok" -> "complete"
                         [] outcome = "truncated" -> "partial"
                         [] OTHER -> file
    /\ defined' = IF outcome = "ok" THEN defined \cup {"dataset"} ELSE defined
    /\ UNCHANGED <<nb, isoVars, shrinkVars, renviews, lightVars, widgets,
                   outputs, hexVars>>
    /\ Render

\* a slip: the download is not guarded by the check for a cached copy
DatasetCellNoCheck(outcome) == DatasetRun(FALSE, outcome)

DatasetCell(outcome) == DatasetRun(file # "absent", outcome)

\* ------------------------------ notebook "iso": pipeline set-up and display

\* The pipeline set-up cell; it needs vtkimg of the dataset cell.  The
\* session sets its pipeline up once.  `enable3` is what light3.Enable ends as.
SetupWith(enable3) ==
    /\ nb = "iso"
    /\ "dataset" \in defined
    /\ "setup" \notin defined
    /\ renviews' =
          <<[CreateView EXCEPT !.ViewSize = <<800, 500>>,
                               !.CameraPosition = <<0, 0, 2500>>,
                               !.Background = <<0, 0, 0>>,
                               !.shown = <<Rep("transform", "None")>>]>>
    /\ contour' = UpdateContour([defined |-> TRUE,
                                 Isosurfaces |-> <<OriginalIso>>,
                                 output |-> <<>>])
    /\ lastIso' = <<>>
    /\ lights' = <<[AddLight EXCEPT !.Enable = 0],
                   [AddLight EXCEPT !.Enable = 0],
                   [AddLight EXCEPT !.Enable = enable3]>>
    /\ defined' = defined \cup {"setup"}
    /\ UNCHANGED <<nb, datasetVars, isoSlider, shrinkVars, lightingRan,
                   controls, widgets, outputs, hexVars>>
    /\ Render

\* a slip: light3 is left out of the chained assignment of Enable
SetupCellLeavesLight3 == SetupWith(AddLight.Enable)

SetupCell == SetupWith(0)

\* w = PVDisplay(renV); display(w).  A re-run puts a new widget in the
\* cell's output area.
DisplayCell ==
    /\ nb = "iso"
    /\ "setup" \in defined
    /\ Len(widgets) < MaxWidgets
    /\ widgets' = Append(widgets, PVDisplay(renV))
    /\ outputs' = [outputs EXCEPT !["display"] = Len(widgets')]
    /\ UNCHANGED <<nb, defined, datasetVars, isoVars, shrinkVars, renviews,
                   lightVars, hexVars>>
    /\ Render

\* The OptiX cell: the path tracer on renV, and a ground plane shown in it.
OptixCell ==
    /\ nb = "iso"
    /\ "setup" \in defined
    /\ Len(renviews[renV].shown) < MaxShown
    /\ renviews' =
          [renviews EXCEPT ![renV] =
              [@ EXCEPT !.BackEnd = "OptiX pathtracer",
                        !.EnableRayTracing = 1,
                        !.Denoise = 1,
                        !.SamplesPerPixel = 4,
                        !.Materials = "materials.json",
                        !.shown = Append(@, Rep("plane", "Metal"))]]
    /\ UNCHANGED <<nb, defined, datasetVars, isoVars, shrinkVars, lightVars,
                   widgets, outputs, hexVars>>
    /\ Render

\* --------------------------------------- notebook "iso": the isovalue

\* iso(isoval) as the kernel runs it: the name contour is looked up at the
\* call, and the call raises before it assigns when the name is unbound
CallIso(isoval) ==
    IF contour.defined
    THEN /\ contour' = iso(contour, isoval)
         /\ lastIso' = <<isoval>>
    ELSE UNCHANGED <<contour, lastIso>>

\* def iso ...; interact(iso, isoval=1627.0): a slider at the default value,
\* and one call of iso with it
IsoCell ==
    /\ nb = "iso"
    /\ defined' = defined \cup {"iso"}
    /\ isoSlider' = <<OriginalIso>>
    /\ CallIso(OriginalIso)
    /\ UNCHANGED <<nb, datasetVars, shrinkVars, renviews, lightVars, widgets,
                   outputs, hexVars>>
    /\ Render

\* the user moves the isovalue slider: the slider observes the change and
\* calls iso with the new value
IsoSlide(v) ==
    /\ nb = "iso"
    /\ isoSlider # <<>>
    /\ isoSlider # <<v>>
    /\ isoSlider' = <<v>>
    /\ CallIso(v)
    /\ UNCHANGED <<nb, defined, datasetVars, shrinkVars, renviews, lightVars,
                   widgets, outputs, hexVars>>
    /\ Render

\* --------------------------------------- notebook "iso": the lights

\* the cell of utility functions and light callbacks: definitions only
UtilsCell ==
    /\ nb = "iso"
    /\ defined' = defined \cup {"utils"}
    /\ UNCHANGED <<nb, datasetVars, isoVars, shrinkVars, renviews, lightVars,
                   widgets, outputs, hexVars>>
    /\ Render

\* lines 243-246 of the lighting-controls cell
EnableLights(ls) ==
    [ls EXCEPT ![1].Enable = 1, ![2].Enable = 1, ![3].Enable = 1,
               ![1].Type = "Directional", ![2].Type = "Directional",
               ![3].Type = "Positional", ![3].ConeAngle = 0]

\* interactive_output calls its function once with the controls' first values
FirstLightCalls(ls) ==
    setPtLight(
        setDirLight(
            setDirLight(ls, 1, 0, 3082, ColOrange, 12600),
            2, 367, 1489, ColBlue, 10000),
        3, 100, -330, 500, ColGreen, 158)

\* The lighting-controls cell.  It raises at iso(1627) when the isovalue cell
\* has not run, and at widgets.FloatSlider when the utilities cell has not.
LightingCell ==
    /\ nb = "iso"
    /\ "setup" \in defined
    /\ renviews' = [renviews EXCEPT ![renV].UseLight = FALSE]
    /\ lightingRan' = TRUE
    /\ IF "iso" \in defined
       THEN CallIso(OriginalIso)
       ELSE UNCHANGED <<contour, lastIso>>
    /\ IF {"iso", "utils"} \subseteq defined
       THEN /\ lights' = FirstLightCalls(EnableLights(lights))
            /\ controls' = TRUE
       ELSE /\ lights' = EnableLights(lights)
            /\ UNCHANGED controls
    /\ UNCHANGED <<nb, defined, datasetVars, isoSlider, shrinkVars, widgets,
                   outputs, hexVars>>
    /\ Render

\* the user changes a control of light 1 or 2: setDirLight(light, ...)
DirLightControl(L, in) ==
    /\ nb = "iso"
    /\ controls
    /\ lights' = setDirLight(lights, L, in[1], in[2], in[3], in[4])
    /\ UNCHANGED <<nb, defined, datasetVars, isoVars, shrinkVars, renviews,
                   lightingRan, controls, widgets, outputs, hexVars>>
    /\ Render

\* the user changes a control of light 3: setPtLight(light3, ...)
PtLightControl(in) ==
    /\ nb = "iso"
    /\ controls
    /\ lights' = setPtLight(lights, 3, in[1], in[2], in[3], in[4], in[5])
    /\ UNCHANGED <<nb, defined, datasetVars, isoVars, shrinkVars, renviews,
                   lightingRan, controls, widgets, outputs, hexVars>>
    /\ Render

\* lines 287-289 of the last cell
SwapLightTypes(ls) ==
    [ls EXCEPT ![1].Type = "Positional", ![2].Type = "Positional",
               ![1].ConeAngle = 0, ![2].ConeAngle = 0,
               ![3].Type = "Directional"]

\* lines 291-293 of the last cell
FinalLightCalls(ls) ==
    setDirLight(
        setPtLight(
            setPtLight(ls, 1, -120, 90, 240, ColRed, 8910),
            2, 120, 90, 240, ColRed, 8910),
        3, 436, 269, ColWhite, 100000)

\* The last cell: a metal skull and the lights re-used.  It raises at
\* setPtLight when the utilities cell has not run.
FinalCell ==
    /\ nb = "iso"
    /\ "setup" \in defined
    /\ renviews' = [renviews EXCEPT ![renV].shown[1].OSPRayMaterial = "Metal"]
    /\ IF "utils" \in defined
       THEN lights' = FinalLightCalls(SwapLightTypes(lights))
       ELSE lights' = SwapLightTypes(lights)
    /\ UNCHANGED <<nb, defined, datasetVars, isoVars, shrinkVars, lightingRan,
                   controls, widgets, outputs, hexVars>>
    /\ Render

\* ------------------------------------------------------- notebook "test"

\* sphere, shrink, Show(shrink) into the active view (created for it);
\* disp = PVDisplay(GetActiveView()); display(disp).  Once per session.
TestCell ==
    /\ nb = "test"
    /\ "test" \notin defined
    /\ shrink' = [defined |-> TRUE, ShrinkFactor |-> DefaultShrink,
                  output |-> <<>>]
    /\ renviews' = <<[CreateView EXCEPT !.shown = <<Rep("shrink", "None")>>]>>
    /\ widgets' = <<PVDisplay(1)>>
    /\ outputs' = [outputs EXCEPT !["test"] = disp]
    /\ defined' = defined \cup {"test"}
    /\ UNCHANGED <<nb, datasetVars, isoVars, lastShrink, shrinkSlider,
                   lightVars, hexVars>>
    /\ Render

\* def setShrink ...; interact(setShrink, factor=shrink.ShrinkFactor, ...):
\* the argument raises when shrink is unbound; else a slider at the current
\* factor and one call of setShrink with it
ShrinkCell ==
    /\ nb = "test"
    /\ shrink.defined
    /\ shrinkSlider' = <<shrink.ShrinkFactor>>
    /\ shrink' = setShrink(shrink, shrink.ShrinkFactor)
    /\ lastShrink' = <<shrink.ShrinkFactor>>
    /\ UNCHANGED <<nb, defined, datasetVars, isoVars, renviews, lightVars,
                   widgets, outputs, hexVars>>
    /\ Render

\* the user moves the shrink slider
ShrinkSlide(f) ==
    /\ nb = "test"
    /\ shrinkSlider # <<>>
    /\ shrinkSlider # <<f>>
    /\ shrinkSlider' = <<f>>
    /\ shrink' = setShrink(shrink, f)
    /\ lastShrink' = <<f>>
    /\ UNCHANGED <<nb, defined, datasetVars, isoVars, renviews, lightVars,
                   widgets, outputs, hexVars>>
    /\ Render

\* a slip: the cell builds another PVDisplay of the view instead of
\* displaying disp
AgainCellCopies ==
    /\ nb = "test"
    /\ "test" \in defined
    /\ Len(widgets) < MaxWidgets
    /\ widgets' = Append(widgets, PVDisplay(widgets[disp].ren))
    /\ outputs' = [outputs EXCEPT !["again"] = Len(widgets')]
    /\ UNCHANGED <<nb, defined, datasetVars, isoVars, shrinkVars, renviews,
                   lightVars, hexVars>>
    /\ Render

\* display(disp): the cell's output area shows the widget disp names
AgainCell ==
    /\ nb = "test"
    /\ "test" \in defined
    /\ outputs' = [outputs EXCEPT !["again"] = disp]
    /\ UNCHANGED <<nb, defined, datasetVars, isoVars, shrinkVars, renviews,
                   lightVars, widgets, hexVars>>
    /\ Render

\* renv2 = CreateView(...); a contour of a wavelet shown in it;
\* PVDisplay(renv2) as the cell's value.  The names come from the first cell.
SecondCell ==
    /\ nb = "test"
    /\ "test" \in defined
    /\ Len(renviews) < MaxViews
    /\ Len(widgets) < MaxWidgets
    /\ renviews' =
          Append(renviews, [CreateView EXCEPT !.shown = <<Rep("contour", "None")>>])
    /\ contour' = [defined |-> TRUE, Isosurfaces |-> <<WaveletIso>>,
                   output |-> <<>>]
    /\ widgets' = Append(widgets, PVDisplay(Len(renviews')))
    /\ outputs' = [outputs EXCEPT !["second"] = Len(widgets')]
    /\ UNCHANGED <<nb, defined, datasetVars, lastIso, isoSlider, shrinkVars,
                   lightVars, hexVars>>
    /\ Render

\* ------------------------------------------------------------ the sessions

Next ==
    \/ \E outcome \in {"ok", "refused", "truncated"} : DatasetCell(outcome)
    \/ SetupCell
    \/ DisplayCell
    \/ OptixCell
    \/ IsoCell
    \/ \E v \in IsoVals : IsoSlide(v)
    \/ UtilsCell
    \/ LightingCell
    \/ \E L \in {1, 2}, in \in DirInputs : DirLightControl(L, in)
    \/ \E in \in PtInputs : PtLightControl(in)
    \/ FinalCell
    \/ TestCell
    \/ ShrinkCell
    \/ \E f \in ShrinkVals : ShrinkSlide(f)
    \/ AgainCell
    \/ SecondCell

Spec == Init /\ [][Next]_vars

\* ------------------------------------------------------ the colour parser

InitHex ==
    /\ nb = "none"
    /\ file = "absent"
    /\ InitCommon
    /\ h \in HexInputs
    /\ rgb = [applied |-> FALSE, result |-> <<>>]

\* hexToRGB is applied to it
ApplyHex ==
    /\ ~rgb.applied
    /\ rgb' = [applied |-> TRUE, result |-> hexToRGB(h)]
    /\ UNCHANGED <<nb, defined, datasetVars, isoVars, shrinkVars, renviews,
                   lightVars, widgets, outputs, frames, h>>

NextHex == ApplyHex

SpecHex == InitHex /\ [][NextHex]_vars

\* ------------------------------------------------------------ properties

\* C1: after a call of a parameter callback the filter holds the value of
\* the most recent call, and the pipeline output was computed from that
\* value, not from an earlier one (iso: contour.Isosurfaces == [isoval];
\* setShrink: shrink.ShrinkFactor == factor).
C1_CallbackTakesEffect ==
    /\ lastIso # <<>> =>
          /\ contour.Isosurfaces = lastIso
          /\ contour.output = lastIso
    /\ lastShrink # <<>> =>
          /\ shrink.ShrinkFactor = lastShrink[1]
          /\ shrink.output = lastShrink

\* the slider was moved twice: 2400 replaced an earlier value
C1_Witness ==
    /\ lastIso = <<2400>>
    /\ isoSlider = <<2400>>
    /\ lightingRan

C3_DownloadOnlyIfNeeded ==
    [][\A outcome \in {"ok", "refused", "truncated"} :
          DatasetCell(outcome) =>
             /\ (urlretrieveCalls' = urlretrieveCalls + 1) <=> (file = "absent")
             /\ (urlretrieveCalls' = urlretrieveCalls) <=> (file # "absent")
             /\ outcome = "ok" => file' # "absent"
             /\ "dataset" \in defined =>
                   /\ urlretrieveCalls' = urlretrieveCalls
                   /\ file' = file
             /\ downloads' <= 1]_vars

\* the file was downloaded, after a failed attempt, and the session went on
C3_Witness ==
    /\ file = "complete"
    /\ downloads = 1
    /\ urlretrieveCalls = 2
    /\ "setup" \in defined

\* the digit values, written out
HexValue ==
    [c \in {"0", "9", "a", "f", "A", "F"} |->
        CASE c = "0" -> 0 [] c = "9" -> 9 [] c = "a" -> 10 [] c = "f" -> 15
          [] c = "A" -> 10 [] c = "F" -> 15]

\* C4: for '#' and six hex digits hexToRGB returns three components,
\* component i the value of the i-th pair of digits over 255, in [0, 1].
C4_HexToRGB ==
    rgb.applied =>
       /\ Len(rgb.result) = 3
       /\ \A i \in 1..3 :
             /\ rgb.result[i].den = 255
             /\ rgb.result[i].num = 16 * HexValue[h[2 * i]] + HexValue[h[2 * i + 1]]
             /\ 0 <= rgb.result[i].num
             /\ rgb.result[i].num <= rgb.result[i].den

\* '#Fa0900' was parsed
C4_Witness ==
    /\ rgb.applied
    /\ h = <<"#", "F", "a", "0", "9", "0", "0">>
    /\ rgb.result = <<[num |-> 250, den |-> 255], [num |-> 9, den |-> 255],
                      [num |-> 0, den |-> 255]>>

AllDisabled == \A L \in 1..3 : lights[L].Enable = 0
AllEnabled == \A L \in 1..3 : lights[L].Enable = 1
TypesOfLighting ==
    /\ lights[1].Type = "Directional"
    /\ lights[2].Type = "Directional"
    /\ lights[3].Type = "Positional"

\* C5 as stated: the lights are disabled until the lighting-controls cell
\* runs, and once it has run they are enabled, the default lighting is off,
\* lights 1 and 2 are directional and light 3 is positional with cone angle 0.
C5_Original ==
    /\ lights # <<>> /\ ~lightingRan => AllDisabled
    /\ lightingRan =>
          /\ AllEnabled
          /\ renviews[renV].UseLight = FALSE
          /\ TypesOfLighting
          /\ lights[3].ConeAngle = 0

\* C5 amended: the lights are disabled until the lighting-controls cell
\* runs; once it has run they are enabled, the default lighting is off and
\* light 3 has cone angle 0; the cell leaves lights 1 and 2 directional and
\* light 3 positional, and they stay so until the last cell runs.
C5_EnabledByLightingCell ==
    /\ [](/\ lights # <<>> /\ ~lightingRan => AllDisabled
          /\ lightingRan =>
                /\ AllEnabled
                /\ renviews[renV].UseLight = FALSE
                /\ lights[3].ConeAngle = 0)
    /\ [][/\ LightingCell => TypesOfLighting'
          /\ lightingRan /\ TypesOfLighting /\ ~FinalCell => TypesOfLighting']_vars

\* the last cell ran after the lighting-controls cell
C5_Witness ==
    /\ lightingRan
    /\ AllEnabled
    /\ lights[1].Type = "Positional"
    /\ lights[3].Type = "Directional"

\* C6 as stated: when the lighting-controls cell completes, the contour's
\* isovalue is [1627] and the isovalue slider shows the same value.
C6_ResetAgreesWithSlider ==
    [][LightingCell /\ {"iso", "utils"} \subseteq defined =>
          /\ contour'.Isosurfaces = <<OriginalIso>>
          /\ isoSlider' # <<>> => isoSlider' = contour'.Isosurfaces]_vars

\* what a callback on light L leaves alone in the lights
LightFrame(before, after, L) ==
    /\ \A K \in (1..3) \ {L} : after[K] = before[K]
    /\ after[L].Type = before[L].Type
    /\ after[L].Enable = before[L].Enable
    /\ after[L].ConeAngle = before[L].ConeAngle

\* C7: a call of setDirLight or setPtLight on light L leaves the Type,
\* Enable and ConeAngle of L and every property of the other two lights as
\* they were, and a callback step leaves the contour and the RenderView
\* as they were.
C7_LightCallbackFrame ==
    /\ [](lights # <<>> =>
            \A L \in 1..3 :
               /\ \A in \in DirInputs :
                     LightFrame(lights,
                        setDirLight(lights, L, in[1], in[2], in[3], in[4]), L)
               /\ \A in \in PtInputs :
                     LightFrame(lights,
                        setPtLight(lights, L, in[1], in[2], in[3], in[4], in[5]), L))
    /\ [][/\ \A L \in {1, 2}, in \in DirInputs :
                DirLightControl(L, in) =>
                   /\ LightFrame(lights, lights', L)
                   /\ contour' = contour
                   /\ renviews' = renviews
          /\ \A in \in PtInputs :
                PtLightControl(in) =>
                   /\ LightFrame(lights, lights', 3)
                   /\ contour' = contour
                   /\ renviews' = renviews]_vars

\* a directional control was used on light 1 after the last cell had made
\* it positional
C7_Witness ==
    /\ controls
    /\ lights[1].Type = "Positional"
    /\ lights[1].Position = sphereToCart(0, 3082)
    /\ lights[2].Intensity = 8910
=============================================================================
